---- MODULE Spec2Model ----
(***************************************************************************)
(* Export controller of the smart video editor (exportProcessedVideo,      *)
(* src/components/UploadZone.tsx 528-699), modelled as the event-driven    *)
(* state machine it is: one action per callback the browser can run        *)
(* (loadedmetadata, error, timer, seeked, timeupdate, play promise         *)
(* settlement, recorder events) plus the transport's own progress.         *)
(*                                                                         *)
(* Time is counted in units of 10 ms, speeds in hundredths (100 = 1.0x).   *)
(***************************************************************************)
EXTENDS Integers, Sequences, FiniteSets, TLC

\* ---------------------------------------------------------------- bounds
\* Length of the source media, in time units.
Duration == 10
\* Length of the shortest segment the model offers (shorter than SeekTolerance).
ShortLen == 2
\* Largest number of segments in the exported list.
MaxSegs == 3
\* Largest advance of the playback position between two callbacks.
MaxStep == 3

\* ------------------------------------------------------ program constants
\* Math.abs(video.currentTime - seg.start) < 0.05, in time units.
SeekTolerance == 5

KEEP == "KEEP"
DELETE == "DELETE"

\* Playback speeds offered to KEEP segments (1.0x and 2.0x).
Speeds == {100, 200}

\* The errors a play() promise can be rejected with: error.name, error.message.
PlayError(n, m) == [name |-> n, message |-> m]
PlayRejections ==
    { PlayError("AbortError", "interrupted by pause"),
      PlayError("NotAllowedError", "not allowed"),
      PlayError("NotSupportedError", "no supported source") }
NoRejection == PlayError("", "")

\* Errors startExport's try block can throw before processing starts.
InitErrors == {"captureStream failed", "recorder start failed"}

LoadMessage == "Failed to load video for export"
PlayMessage == "Playback failed during export: "

\* ----------------------------------------------------------- segment lists
TimePoints == {0, ShortLen, Duration - ShortLen, Duration}

Segment(s, e, sp, a) == [start |-> s, end |-> e, speed |-> sp, action |-> a]

\* EditSegment values on the time grid: KEEP at each speed, DELETE at speed 1.0.
EditSegments ==
    { Segment(s, e, sp, KEEP) : <<s, e, sp>> \in
        { t \in TimePoints \X TimePoints \X Speeds : t[1] < t[2] } }
    \cup
    { Segment(s, e, 100, DELETE) : <<s, e>> \in
        { t \in TimePoints \X TimePoints : t[1] < t[2] } }

\* The store invariant the controllers rely on: sorted by start, no overlap.
ValidStore(segs) ==
    \A i \in 1..(Len(segs) - 1) : segs[i].end <= segs[i + 1].start

SegmentLists ==
    UNION { { segs \in [1..n -> EditSegments] : ValidStore(segs) } : n \in 0..MaxSegs }

\* ------------------------------------------------------------------ state
VARIABLES
    segments,             \* the snapshot handed to exportProcessedVideo
    playReturnsPromise,   \* whether video.play() returns a promise in this browser
    \* the hidden video element
    attached,             \* video.parentNode is the document body
    loaded,               \* loadedmetadata has fired
    errored,              \* the error event has fired
    position,             \* video.currentTime
    playback,             \* "stopped" (video.paused), "starting", "running"
    playbackRate,         \* video.playbackRate
    \* the closure state of exportProcessedVideo
    currentSegmentIndex,
    timers,               \* pending setTimeout(processNextSegment, 0) callbacks
    seekedListener,       \* index of the segment whose onSeeked waits for 'seeked', or -1
    listeners,            \* indices of the segments whose checkEnd is attached
    armed,                \* indices of the segments whose isPlaying is true
    playPromise,          \* "none", "pending", "fulfilled" (then-callback queued)
    playIdx,              \* index of the segment whose onSeeked issued the play
    \* the recorder
    recState,             \* "none" (mediaRecorder null), "recording", "inactive"
    recEvents,            \* events queued by stop(): "none", "data", "stop"
    chunks,               \* number of blobs pushed
    \* the promise returned to the caller
    outcome,              \* "pending", "resolved", "rejected"
    rejectMsg,            \* <<prefix, cause>> of the rejection
    artifact,             \* chunks in the resolved blob, or -1
    playRejection,        \* the error the play promise was rejected with, if any
    \* history
    log                   \* progress reports and transport commands, in order

\* The application around the exporter: the visible player (SmartPlayer) and
\* the App component that owns the segment store.
VARIABLES
    appSegments,          \* App's segments state, SmartPlayer's segments prop
    stopAt,               \* App's stopAt state, or NoStop for null
    \* the visible video element
    liveTime,             \* videoRef.current.currentTime
    livePaused,           \* videoRef.current.paused
    liveRate,             \* videoRef.current.playbackRate
    endedPending,         \* an 'ended' event is queued
    \* SmartPlayer
    isPlaying,            \* the isPlaying state
    frame,                \* a requestAnimationFrame(updateLoop) callback is pending
    \* App
    appState,             \* the state state: "IDLE", "ANALYZING", "READY", "ERROR"
    file,                 \* the file state is not null
    videoUrl,             \* the videoUrl state is not empty
    analyses,             \* analyzeVideo calls awaited by handleFileSelect
    splits,               \* handleSplitSegment calls awaiting refineSegment, each
                          \* with its index and the segments its closure holds
    isExporting,          \* the isExporting state
    ops,                  \* user operations on the store so far
    \* history
    lastTick,             \* what the updateLoop call that has just run did
    lastRefine            \* what the refineSegment call that has just returned did

\* The animation frames of SmartPlayer, callback by callback.
VARIABLES
    pendingFrames,        \* the updateLoop callbacks requested and neither run nor
                          \* cancelled, oldest first, each with the stopAt and the
                          \* segments of its closure
    refPending,           \* animationFrameRef.current is the id of the newest of them
    effectDeps            \* isPlaying, stopAt and segments of the render whose
                          \* effect on [isPlaying, updateLoop] ran last

liveVars == <<stopAt, liveTime, livePaused, liveRate, endedPending, isPlaying,
              frame, lastTick>>
frameVars == <<pendingFrames, refPending, effectDeps>>
storeVars == <<appState, file, videoUrl, analyses, splits, isExporting, ops,
               lastRefine>>
appVars == <<appSegments, liveVars, storeVars, frameVars>>

videoVars == <<attached, loaded, errored, position, playback, playbackRate>>
closureVars == <<currentSegmentIndex, timers, seekedListener, listeners, armed,
                 playPromise, playIdx>>
recorderVars == <<recState, recEvents, chunks>>
promiseVars == <<outcome, rejectMsg, artifact>>
exportVars == <<segments, playReturnsPromise, videoVars, closureVars,
                recorderVars, promiseVars, playRejection, log>>
vars == <<exportVars, appVars>>

\* --------------------------------------------- the visible player at rest
\* stopAt is null: no segment preview is bounded.
NoStop == -1
\* The rate the player resets to, in hundredths.
NormalRate == 100
\* What segments.find returns when no segment matches (undefined).
NoSegment == [start |-> -1, end |-> -1, speed |-> 0, action |-> "NONE"]
\* No updateLoop call has just run.
NoTick == [kind |-> "none", time |-> -1, stop |-> -1, found |-> NoSegment,
           target |-> -1, rate |-> 0, reached |-> 0]

\* What the effect on [isPlaying, updateLoop] depends on, by value: updateLoop
\* is a new function when stopAt or segments change.
Deps == [playing |-> isPlaying, stop |-> stopAt, segs |-> appSegments]

\* SmartPlayer as mounted: isPlaying false, the video paused at 0 at rate 1.
PlayerAtRest ==
    /\ stopAt = NoStop
    /\ liveTime = 0
    /\ livePaused = TRUE
    /\ liveRate = NormalRate
    /\ endedPending = FALSE
    /\ isPlaying = FALSE
    /\ frame = FALSE
    /\ lastTick = NoTick
    /\ pendingFrames = <<>>
    /\ refPending = FALSE
    /\ effectDeps = Deps

\* No refineSegment call has just returned.
NoRefine == [startTime |-> -1, endTime |-> -1, raw |-> <<>>, result |-> <<>>]

\* App showing the analysed file, nothing in flight.
AppReady ==
    /\ appState = "READY"
    /\ file = TRUE
    /\ videoUrl = TRUE
    /\ analyses = 0
    /\ splits = {}
    /\ ops = 0
    /\ lastRefine = NoRefine

Init ==
    /\ segments \in SegmentLists
    /\ playReturnsPromise \in BOOLEAN
    /\ attached = TRUE
    /\ loaded = FALSE
    /\ errored = FALSE
    /\ position = 0
    /\ playback = "stopped"
    /\ playbackRate = 100
    /\ currentSegmentIndex = 0
    /\ timers = 0
    /\ seekedListener = -1
    /\ listeners = {}
    /\ armed = {}
    /\ playPromise = "none"
    /\ playIdx = -1
    /\ recState = "none"
    /\ recEvents = "none"
    /\ chunks = 0
    /\ outcome = "pending"
    /\ rejectMsg = <<"", "">>
    /\ artifact = -1
    /\ playRejection = NoRejection
    /\ log = <<>>
    /\ appSegments = segments
    /\ PlayerAtRest
    /\ AppReady
    /\ isExporting = TRUE

\* ---------------------------------------------------------------- helpers
Abs(x) == IF x < 0 THEN -x ELSE x

\* segments[i] with the code's 0-based index.
Seg(i) == segments[i + 1]

\* Math.floor in place of Math.round.
Floor100(i, n) == (100 * i) \div n

\* Math.round(x) for x = 100*i/n >= 0: halves round up.
Round100(i, n) == (200 * i + n) \div (2 * n)

Min(a, b) == IF a < b THEN a ELSE b

\* Math.min(100, Math.round((currentSegmentIndex / segments.length) * 100))
Progress(i, n) == Min(100, Round100(i, n))

\* video.paused and video.ended
Paused(pb) == pb = "stopped"
Ended(pos) == pos >= Duration

\* A settlement that overwrites an earlier one.
SettleAgain(cur, new) == new

\* resolve / reject of the promise: only the first settlement counts.
Settle(cur, new) == IF cur = "pending" THEN new ELSE cur

\* Log entries: <<kind, segment index, value>>.
LogProgress(i, pct) == <<"progress", i, pct>>
LogSkip(i) == <<"skip", i, 0>>
LogSeek(i, t) == <<"seek", i, t>>
LogRate(i, sp) == <<"rate", i, sp>>
LogPlay(i) == <<"play", i, 0>>
LogPause(i, pos) == <<"pause", i, pos>>

\* ------------------------------------------------------------- recorder
\* mediaRecorder.stop() on a recorder in state rs: a recording recorder becomes
\* inactive at once and queues dataavailable, then stop; on an inactive
\* recorder the call throws and changes nothing.
StopStateForgotten(rs) == rs
StopState(rs) == IF rs = "recording" THEN "inactive" ELSE rs
StopEvents(rs, ev) == IF rs = "recording" THEN "data" ELSE ev

\* cleanup() without document.body.removeChild(video).
CleanupKeepsVideo(pb, ev) ==
    /\ attached' = attached
    /\ playback' = pb
    /\ recState' = StopState(recState)
    /\ recEvents' = StopEvents(recState, ev)

\* cleanup(): detach the video (a media element removed from the document is
\* paused by the browser) and stop a recorder that is not inactive.
\* pb and ev are the playback state and the recorder queue the caller left.
Cleanup(pb, ev) ==
    /\ attached' = FALSE
    /\ playback' = IF attached THEN "stopped" ELSE pb
    /\ recState' = StopState(recState)
    /\ recEvents' = StopEvents(recState, ev)

\* ------------------------------------------------------ the segment loop
\* The closure state a handler has reached when it calls processNextSegment.
Context ==
    [idx |-> currentSegmentIndex, timers |-> timers, playback |-> playback,
     listeners |-> listeners, armed |-> armed, playPromise |-> playPromise,
     playIdx |-> playIdx, log |-> log, recState |-> recState]

\* video.play(): the element leaves the paused state; the promise (when the
\* browser returns one) is pending until playback starts or fails.
PlayCall(pb) == IF pb = "stopped" THEN "starting" ELSE pb
PlayPromiseOf(pb) ==
    IF ~playReturnsPromise THEN "none"
    ELSE IF pb = "running" THEN "fulfilled" ELSE "pending"

\* onSeeked of segment i: set the rate, attach checkEnd with isPlaying = false,
\* issue play; without a promise isPlaying is set at once.
OnSeeked(i, c) ==
    /\ playbackRate' = Seg(i).speed
    /\ listeners' = c.listeners \cup {i}
    /\ playback' = PlayCall(c.playback)
    /\ playPromise' = PlayPromiseOf(c.playback)
    /\ playIdx' = IF playReturnsPromise THEN i ELSE c.playIdx
    /\ armed' = IF playReturnsPromise THEN c.armed \ {i} ELSE c.armed \cup {i}
    /\ log' = c.log \o <<LogRate(i, Seg(i).speed), LogPlay(i)>>

\* seg.action === SegmentAction.DELETE
IsDeletedNever(seg) == FALSE
IsDeleted(seg) == seg.action = DELETE

\* The DELETE branch without its setTimeout.
SkipDeletedUnscheduled(c) == [c EXCEPT !.idx = c.idx + 1]
\* The index and timers a DELETE segment leaves behind.
SkipDeleted(c) == [c EXCEPT !.idx = c.idx + 1, !.timers = c.timers + 1]

\* The seek decision: already within tolerance of the segment start.
AtStartAlways(pos, seg) == TRUE
AtStart(pos, seg) == Abs(pos - seg.start) < SeekTolerance

\* processNextSegment() called in context c.
ProcessNextSegment(c) ==
    IF c.idx >= Len(segments)
    THEN \* mediaRecorder?.stop()
         /\ recState' = StopState(c.recState)
         /\ recEvents' = StopEvents(c.recState, recEvents)
         /\ currentSegmentIndex' = c.idx
         /\ timers' = c.timers
         /\ playback' = c.playback
         /\ listeners' = c.listeners
         /\ armed' = c.armed
         /\ playPromise' = c.playPromise
         /\ playIdx' = c.playIdx
         /\ log' = c.log
         /\ UNCHANGED <<position, playbackRate, seekedListener>>
    ELSE LET i == c.idx
             seg == Seg(i)
             c1 == [c EXCEPT !.log =
                      Append(c.log, LogProgress(i, Progress(i, Len(segments))))]
         IN  /\ recState' = c.recState
             /\ recEvents' = recEvents
             /\ IF IsDeleted(seg)
                THEN LET c2 == SkipDeleted(c1)
                     IN  /\ currentSegmentIndex' = c2.idx
                         /\ timers' = c2.timers
                         /\ log' = Append(c2.log, LogSkip(i))
                         /\ playback' = c2.playback
                         /\ listeners' = c2.listeners
                         /\ armed' = c2.armed
                         /\ playPromise' = c2.playPromise
                         /\ playIdx' = c2.playIdx
                         /\ UNCHANGED <<position, playbackRate, seekedListener>>
                ELSE /\ currentSegmentIndex' = i
                     /\ timers' = c1.timers
                     /\ IF AtStart(position, seg)
                        THEN /\ OnSeeked(i, c1)
                             /\ UNCHANGED <<position, seekedListener>>
                        ELSE /\ seekedListener' = i
                             /\ position' = seg.start
                             /\ log' = Append(c1.log, LogSeek(i, seg.start))
                             /\ playback' = c1.playback
                             /\ listeners' = c1.listeners
                             /\ armed' = c1.armed
                             /\ playPromise' = c1.playPromise
                             /\ playIdx' = c1.playIdx
                             /\ UNCHANGED playbackRate

\* A removeEventListener that removes nothing.
DetachNothing(i, attachedTo) == attachedTo
\* video.removeEventListener('timeupdate', checkEnd) of segment i.
Detach(i, attachedTo) == attachedTo \ {i}

\* AfterPause without video.removeEventListener('timeupdate', checkEnd).
AfterPauseKeepsListener(i, c) ==
    [c EXCEPT !.playback = "stopped",
              !.idx = c.idx + 1,
              !.log = Append(c.log, LogPause(i, position))]

\* The terminal action of KEEP segment i: pause, detach checkEnd, advance.
AfterPause(i, c) ==
    [c EXCEPT !.playback = "stopped",
              !.listeners = Detach(i, c.listeners),
              !.idx = c.idx + 1,
              !.log = Append(c.log, LogPause(i, position))]

\* ------------------------------------------------------------- actions
\* video.onloadedmetadata -> startExport(), the try block running through.
StartExport ==
    /\ attached /\ ~loaded /\ ~errored
    /\ loaded' = TRUE
    /\ ProcessNextSegment([Context EXCEPT !.recState = "recording"])
    /\ UNCHANGED <<appVars, segments, playReturnsPromise, attached, errored, chunks,
                   promiseVars, playRejection>>

\* video.onloadedmetadata -> startExport(), the try block throwing before
\* mediaRecorder.start() has succeeded: catch -> cleanup(); reject(err).
StartExportThrows ==
    /\ attached /\ ~loaded /\ ~errored
    /\ loaded' = TRUE
    /\ \E err \in InitErrors :
          /\ outcome' = Settle(outcome, "rejected")
          /\ rejectMsg' = IF outcome = "pending" THEN <<"", err>> ELSE rejectMsg
    /\ Cleanup(playback, recEvents)
    /\ UNCHANGED <<appVars, segments, playReturnsPromise, errored, position, playbackRate,
                   closureVars, chunks, artifact, playRejection, log>>

\* video.onerror: cleanup(); reject(new Error("Failed to load video for export")).
VideoOnError ==
    /\ attached /\ ~errored
    /\ errored' = TRUE
    /\ Cleanup(playback, recEvents)
    /\ outcome' = Settle(outcome, "rejected")
    /\ rejectMsg' = IF outcome = "pending" THEN <<LoadMessage, "">> ELSE rejectMsg
    /\ UNCHANGED <<appVars, segments, playReturnsPromise, loaded, position, playbackRate,
                   closureVars, chunks, artifact, playRejection, log>>

\* A setTimeout(processNextSegment, 0) callback runs.
Timer ==
    /\ timers > 0
    /\ ProcessNextSegment([Context EXCEPT !.timers = timers - 1])
    /\ UNCHANGED <<appVars, segments, playReturnsPromise, attached, loaded, errored,
                   chunks, promiseVars, playRejection>>

\* The 'seeked' event: the once-listener onSeeked runs.
Seeked ==
    /\ seekedListener # -1
    /\ seekedListener' = -1
    /\ OnSeeked(seekedListener, Context)
    /\ UNCHANGED <<appVars, segments, playReturnsPromise, attached, loaded, errored,
                   position, currentSegmentIndex, timers, recorderVars,
                   promiseVars, playRejection>>

\* The transport starts playing what play() asked for; a pending promise is
\* fulfilled and its then-callback queued.
PlayStarts ==
    /\ playback = "starting" /\ ~errored
    /\ playback' = "running"
    /\ playPromise' = IF playPromise = "pending" THEN "fulfilled" ELSE playPromise
    /\ UNCHANGED <<appVars, segments, playReturnsPromise, attached, loaded, errored,
                   position, playbackRate, currentSegmentIndex, timers,
                   seekedListener, listeners, armed, playIdx, recorderVars,
                   promiseVars, playRejection, log>>

\* The then-callback without its immediate check.
NeverPastEnd(pos, seg) == FALSE
\* The immediate check of the then-callback: video.currentTime >= seg.end.
AlreadyPastEnd(pos, seg) == pos >= seg.end

\* playPromise.then(...) of segment playIdx: isPlaying = true, immediate check.
PlayThen ==
    /\ playPromise = "fulfilled"
    /\ LET i == playIdx
           c == [Context EXCEPT !.playPromise = "none", !.armed = armed \cup {i}]
       IN  IF AlreadyPastEnd(position, Seg(i))
           THEN ProcessNextSegment(AfterPause(i, c))
           ELSE /\ playPromise' = c.playPromise
                /\ armed' = c.armed
                /\ UNCHANGED <<position, playback, playbackRate,
                               currentSegmentIndex, timers, seekedListener,
                               listeners, playIdx, recState, recEvents, log>>
    /\ UNCHANGED <<appVars, segments, playReturnsPromise, attached, loaded, errored,
                   chunks, promiseVars, playRejection>>

\* The catch handler without its AbortError test, and with every error ignored.
IsFatalAlways(error) == TRUE
IsFatalNever(error) == FALSE

\* error.name !== 'AbortError'
IsFatal(error) == error.name # "AbortError"

\* What the transport can reject a pending play() with. A request that is
\* still starting can fail for any reason (the browser may also pause the
\* element itself: AbortError); once the element was paused by its removal
\* from the document, or has a media error, the pending request is abandoned
\* with an AbortError.
RejectionsOf(pb, err) ==
    IF Paused(pb) \/ err
    THEN { e \in PlayRejections : e.name = "AbortError" }
    ELSE PlayRejections

\* The play promise is rejected (the element stays paused) and
\* playPromise.catch(...) runs: an AbortError is ignored, any other error
\* does cleanup(); reject(new Error("Playback failed during export: " + message)).
PlayRejected ==
    /\ playPromise = "pending"
    /\ playPromise' = "none"
    /\ \E error \in RejectionsOf(playback, errored) :
          /\ playRejection' = error
          /\ IF IsFatal(error)
             THEN /\ Cleanup("stopped", recEvents)
                  /\ outcome' = Settle(outcome, "rejected")
                  /\ rejectMsg' = IF outcome = "pending"
                                  THEN <<PlayMessage, error.message>>
                                  ELSE rejectMsg
             ELSE /\ playback' = "stopped"
                  /\ UNCHANGED <<attached, recState, recEvents, outcome, rejectMsg>>
    /\ UNCHANGED <<appVars, segments, playReturnsPromise, loaded, errored, position,
                   playbackRate, currentSegmentIndex, timers, seekedListener,
                   listeners, armed, playIdx, chunks, artifact, log>>

\* The playback position moves on while the transport is running; at the end
\* of the media the element reports ended and pauses itself.
Advance ==
    /\ playback = "running"
    /\ \E d \in 1..MaxStep :
          /\ position' = Min(position + d, Duration)
          /\ playback' = IF Ended(Min(position + d, Duration))
                         THEN "stopped" ELSE playback
    /\ UNCHANGED <<appVars, segments, playReturnsPromise, attached, loaded, errored,
                   playbackRate, closureVars, recorderVars, promiseVars, playRejection, log>>

\* checkEnd without its test of isPlaying.
IsPlayingIgnored(i, flags) == TRUE
\* The isPlaying flag of segment i's onSeeked, read by its checkEnd.
IsPlayingFlag(i, flags) == i \in flags

\* A 'timeupdate' event delivered to the checkEnd listener of segment i.
CheckEnd(i) ==
    /\ i \in listeners
    /\ IF Paused(playback) \/ Ended(position) \/ ~IsPlayingFlag(i, armed)
          \/ position < Seg(i).end
       THEN UNCHANGED <<position, playback, playbackRate, closureVars,
                        recState, recEvents, log>>
       ELSE ProcessNextSegment(AfterPause(i, Context))
    /\ UNCHANGED <<appVars, segments, playReturnsPromise, attached, loaded, errored,
                   chunks, promiseVars, playRejection>>

TimeUpdate == \E i \in listeners : CheckEnd(i)

\* mediaRecorder.ondataavailable: a chunk of size > 0 is pushed.
DataAvailable ==
    /\ recEvents = "data"
    /\ recEvents' = "stop"
    /\ \E size \in {0, 1} : chunks' = IF size > 0 THEN chunks + 1 ELSE chunks
    /\ UNCHANGED <<appVars, segments, playReturnsPromise, videoVars, closureVars,
                   recState, promiseVars, playRejection, log>>

\* mediaRecorder.onstop: build the blob, cleanup(), resolve({blob, extension}).
OnStop ==
    /\ recEvents = "stop"
    /\ Cleanup(playback, "none")
    /\ outcome' = Settle(outcome, "resolved")
    /\ artifact' = IF outcome = "pending" THEN chunks ELSE artifact
    /\ UNCHANGED <<appVars, segments, playReturnsPromise, loaded, errored, position,
                   playbackRate, closureVars, chunks, rejectMsg, playRejection, log>>

Next ==
    \/ StartExport
    \/ StartExportThrows
    \/ VideoOnError
    \/ Timer
    \/ Seeked
    \/ PlayStarts
    \/ PlayThen
    \/ PlayRejected
    \/ Advance
    \/ TimeUpdate
    \/ DataAvailable
    \/ OnStop

Spec == Init /\ [][Next]_vars

\* The scheduling the browser guarantees: the source loads (or startExport
\* throws), queued timers, events and promise callbacks run, every play
\* request is answered, and a running transport keeps moving and keeps
\* delivering timeupdate. The error event is never forced.
Fairness ==
    /\ WF_vars(StartExport \/ StartExportThrows)
    /\ WF_vars(Timer)
    /\ WF_vars(Seeked)
    /\ WF_vars(PlayStarts \/ PlayRejected)
    /\ WF_vars(PlayThen)
    /\ WF_vars(Advance)
    /\ WF_vars(TimeUpdate)
    /\ WF_vars(DataAvailable)
    /\ WF_vars(OnStop)

FairSpec == Spec /\ Fairness

\* ------------------------------------------------------ reading the log
Kind(e) == e[1]
Idx(e) == e[2]
Val(e) == e[3]
TransportKinds == {"seek", "rate", "play", "pause"}
LogIndices == 1..Len(log)
ProgressEntries == { k \in LogIndices : Kind(log[k]) = "progress" }
AllDeleted == \A k \in 1..Len(segments) : segments[k].action = DELETE

\* ------------------------------------------------------------------ C1
\* C1: progress reports (one per call of processNextSegment that handles a
\* segment) carry the indices 0,1,2,... in this order, each once; every log
\* entry of segment i precedes every entry of a later segment; and when
\* segment i+1 is reported, the terminal action of segment i (skip for
\* DELETE, pause for KEEP) is already in the log.
SequentialProcessing ==
    /\ \A k \in ProgressEntries :
          Idx(log[k]) = Cardinality({ j \in ProgressEntries : j < k })
    /\ \A j, k \in LogIndices : j < k => Idx(log[j]) <= Idx(log[k])
    /\ \A k \in ProgressEntries :
          Idx(log[k]) > 0 =>
             \E j \in 1..(k - 1) :
                /\ Idx(log[j]) = Idx(log[k]) - 1
                /\ Kind(log[j]) =
                      IF Seg(Idx(log[j])).action = DELETE THEN "skip" ELSE "pause"

\* A three-segment export that has skipped one segment, paused at the end of
\* another and begun the third.
SequentialProcessingWitness ==
    /\ \E k \in ProgressEntries : Idx(log[k]) = 2
    /\ \E k \in LogIndices : Kind(log[k]) = "skip"
    /\ \E k \in LogIndices : Kind(log[k]) = "pause"

\* ------------------------------------------------------------------ C4
\* C4: no seek, rate change, play or pause is ever issued for a DELETE
\* segment, and while a list of DELETE segments only is exported the
\* transport stays exactly as it was created: position 0, paused, rate 1.0,
\* no seeked or timeupdate listener; only progress and skip are logged.
DeleteTouchesNoTransport ==
    /\ \A k \in LogIndices :
          Kind(log[k]) \in TransportKinds => Seg(Idx(log[k])).action = KEEP
    /\ AllDeleted =>
          /\ position = 0 /\ playback = "stopped" /\ playbackRate = 100
          /\ seekedListener = -1 /\ listeners = {} /\ playPromise = "none"
          /\ \A k \in LogIndices : Kind(log[k]) \in {"progress", "skip"}

\* A list of three DELETE segments exported to the end: the recorder was
\* stopped by the loop and the export resolved.
DeleteTouchesNoTransportWitness ==
    /\ Len(segments) = 3 /\ AllDeleted
    /\ currentSegmentIndex = 3
    /\ outcome = "resolved"

\* ------------------------------------------------------------------ C9
\* C9: every index below currentSegmentIndex has exactly one progress
\* report; the report of segment i precedes every transport command of
\* segment i; its value v is an integer in 0..100 and is 100*i/n rounded to
\* the nearest integer, halves up (2nv <= 200i + n < 2nv + 2n); the values
\* are non-decreasing.
ProgressReports ==
    LET n == Len(segments)
    IN  /\ \A i \in 0..(currentSegmentIndex - 1) :
              Cardinality({ k \in ProgressEntries : Idx(log[k]) = i }) = 1
        /\ \A i \in 0..(n - 1) :
              Cardinality({ k \in ProgressEntries : Idx(log[k]) = i }) <= 1
        /\ \A k \in LogIndices :
              Kind(log[k]) \in TransportKinds =>
                 \E j \in ProgressEntries : j < k /\ Idx(log[j]) = Idx(log[k])
        /\ \A k \in ProgressEntries :
              LET v == Val(log[k])
                  i == Idx(log[k])
              IN  /\ v \in 0..100
                  /\ 2 * n * v <= 200 * i + n
                  /\ 200 * i + n < 2 * n * v + 2 * n
        /\ \A j, k \in ProgressEntries : j < k => Val(log[j]) <= Val(log[k])

\* The third of three segments has been reported: 100*2/3 rounds up to 67.
ProgressReportsWitness ==
    \E k \in ProgressEntries : Idx(log[k]) = 2 /\ Val(log[k]) = 67

\* ------------------------------------------------------------------ C2
\* C2: every started export eventually settles: the promise is resolved or
\* rejected (under FairSpec, where the transport answers every command).
ExportSettles == <>(outcome # "pending")

\* ------------------------------------------------------------------ C3
\* pos lies in the [start, end) of a DELETE segment.
InDeleted(pos) ==
    \E k \in 1..Len(segments) :
       /\ segments[k].action = DELETE
       /\ segments[k].start <= pos /\ pos < segments[k].end

\* C3: while the transport is running and the recorder is recording, the
\* playback position is inside no DELETE segment's [start, end).
DeletedRangesNeverPlayed ==
    (playback = "running" /\ recState = "recording") => ~InDeleted(position)

\* ------------------------------------------------------------------ C5
\* A play request was rejected with an error other than AbortError.
FatalRejection == playRejection.name \notin {"", "AbortError"}

SettlesOnce ==
    /\ [](outcome = "rejected" => artifact = -1)
    /\ [](outcome = "resolved" => rejectMsg = <<"", "">>)
    /\ [][outcome # "pending" =>
            /\ outcome' = outcome
            /\ rejectMsg' = rejectMsg
            /\ artifact' = artifact]_vars

\* A failed export whose recorder has delivered a chunk and its stop event.
SettlesOnceWitness ==
    /\ outcome = "rejected"
    /\ recState = "inactive" /\ recEvents = "none"
    /\ chunks > 0

\* ------------------------------------------------------------------ C7
\* C7: in every state in which the export is settled, the video is detached
\* from the document and the recorder is not recording.
SettledMeansReleased ==
    outcome # "pending" => (~attached /\ recState # "recording")

\* An export that ran through its segments and resolved with the artifact.
SettledMeansReleasedWitness ==
    /\ outcome = "resolved"
    /\ artifact >= 0
    /\ \E k \in LogIndices : Kind(log[k]) = "pause"

\* ------------------------------------------------------------------ C8
\* C8: the step in which a play request is rejected with an AbortError
\* changes neither the export's outcome nor the recorder nor the video's
\* attachment.
AbortIsSwallowed ==
    [][(playRejection = NoRejection /\ playRejection'.name = "AbortError") =>
          /\ outcome' = outcome
          /\ rejectMsg' = rejectMsg
          /\ recState' = recState
          /\ recEvents' = recEvents
          /\ attached' = attached]_vars

\* After an AbortError the export is still pending, recording and attached.
AbortIsSwallowedWitness ==
    /\ playRejection.name = "AbortError"
    /\ outcome = "pending"
    /\ recState = "recording"
    /\ attached

\* ----------------------------------------------------------------- C10
\* C10: once the error event fired before loadedmetadata, the export is
\* rejected with the load-failure message, no recorder exists, nothing was
\* reported or commanded (empty log, position 0, paused, no listener, no
\* timer) and the video is detached.
LoadFailureStartsNothing ==
    (errored /\ ~loaded) =>
       /\ outcome = "rejected"
       /\ rejectMsg = <<LoadMessage, "">>
       /\ recState = "none" /\ recEvents = "none"
       /\ log = <<>>
       /\ position = 0 /\ playback = "stopped"
       /\ seekedListener = -1 /\ listeners = {} /\ timers = 0
       /\ playPromise = "none"
       /\ ~attached

\* The load failed for a list that has a KEEP segment to play.
LoadFailureStartsNothingWitness ==
    /\ errored /\ ~loaded
    /\ \E k \in 1..Len(segments) : segments[k].action = KEEP

\* ====================================================================
\* The live playback controller (SmartPlayer) and the App handlers that
\* drive the visible video element.
\* ====================================================================
\* Bound: the longest segment list handed to the player.
MaxLiveSegs == 2

\* The skip overshoot, 0.01 s, in time units.
Epsilon == 1
\* The rate tolerance, 0.1, in hundredths.
RateTolerance == 10
\* Speeds of the player's segments: one within the tolerance of 1.0, and 2.0.
LiveSpeeds == {105, 200}
\* Times a click on the timeline asks for: the segment boundaries and one more.
SeekTimes == TimePoints \cup {Duration \div 2}

\* Lists as analyzeVideo returns them: sorted by start, overlaps possible.
SortedByStart(segs) ==
    \A i \in 1..(Len(segs) - 1) : segs[i].start <= segs[i + 1].start

LiveSegments ==
    { Segment(s, e, sp, KEEP) : s \in TimePoints, e \in TimePoints, sp \in LiveSpeeds }
       \cup { Segment(s, e, 100, DELETE) : s \in TimePoints, e \in TimePoints }

LiveLists ==
    UNION { { segs \in [1..n -> { g \in LiveSegments : g.start < g.end }] :
                 SortedByStart(segs) } : n \in 0..MaxLiveSegs }

\* No export is running: the exporter's state is at rest.
ExporterIdle ==
    /\ segments = <<>>
    /\ playReturnsPromise = TRUE
    /\ attached = FALSE
    /\ loaded = FALSE
    /\ errored = FALSE
    /\ position = 0
    /\ playback = "stopped"
    /\ playbackRate = 100
    /\ currentSegmentIndex = 0
    /\ timers = 0
    /\ seekedListener = -1
    /\ listeners = {}
    /\ armed = {}
    /\ playPromise = "none"
    /\ playIdx = -1
    /\ recState = "none"
    /\ recEvents = "none"
    /\ chunks = 0
    /\ outcome = "pending"
    /\ rejectMsg = <<"", "">>
    /\ artifact = -1
    /\ playRejection = NoRejection
    /\ log = <<>>

LiveInit ==
    /\ appSegments \in LiveLists
    /\ PlayerAtRest
    /\ AppReady
    /\ isExporting = FALSE
    /\ ExporterIdle

\* segments.find(s => time >= s.start && time < s.end): the first match in
\* array order, or undefined.
Contains(seg, time) == time >= seg.start /\ time < seg.end
Matches(segs, time) == { i \in 1..Len(segs) : Contains(segs[i], time) }
getActiveSegmentLast(segs, time) ==
    IF Matches(segs, time) = {} THEN NoSegment
    ELSE segs[CHOOSE i \in Matches(segs, time) : \A j \in Matches(segs, time) : j <= i]
getActiveSegment(segs, time) ==
    IF Matches(segs, time) = {} THEN NoSegment
    ELSE segs[CHOOSE i \in Matches(segs, time) : \A j \in Matches(segs, time) : i <= j]

\* The element clamps an assigned currentTime to the media.
ClampSeek(t) == IF t < 0 THEN 0 ELSE Min(t, Duration)
\* video.play(): playback that has ended restarts from the beginning.
PlayFrom(pos) == IF Ended(pos) THEN 0 ELSE pos

\* The target of the skip: segment.end + 0.01.
SkipTargetAtEnd(seg) == seg.end
SkipTarget(seg) == seg.end + Epsilon

\* The speed logic: the rate is set only when it is off by more than 0.1.
RateOffAlways(rate, speed) == TRUE
RateOff(rate, speed) == Abs(rate - speed) > RateTolerance

\* The stop condition of a segment preview.
StopDueNever(stop, time) == FALSE
StopDue(stop, time) == stop # NoStop /\ time >= stop

\* What one updateLoop call did, for lastTick.
Tick(k, time, seg, target, reached) ==
    [kind |-> k, time |-> time, stop |-> stopAt, found |-> seg,
     target |-> target, rate |-> liveRate, reached |-> reached]

\* The position moves to pos while the element may be playing: at the end of
\* the media a playing element pauses and queues 'ended'.
MoveTo(pos) ==
    /\ liveTime' = pos
    /\ IF Ended(pos) /\ ~livePaused
       THEN livePaused' = TRUE /\ endedPending' = TRUE
       ELSE UNCHANGED <<livePaused, endedPending>>

\* The stop branch of updateLoop: pause, setIsPlaying(false), onStopReached
\* (App's setStopAt(null)), return; the effect then finds isPlaying false.
StopBranch ==
    /\ livePaused' = TRUE
    /\ isPlaying' = FALSE
    /\ stopAt' = NoStop
    /\ frame' = FALSE
    /\ lastTick' = Tick("stop", liveTime, NoSegment, -1, 1)
    /\ UNCHANGED <<liveTime, liveRate, endedPending>>

\* updateLoop, called by the animation frame, followed by the effects of the
\* render it causes.
updateLoop ==
    /\ frame
    /\ IF StopDue(stopAt, liveTime)
       THEN StopBranch
       ELSE LET segment == getActiveSegment(appSegments, liveTime) IN
            /\ frame' = TRUE
            /\ UNCHANGED <<stopAt, isPlaying>>
            /\ IF segment # NoSegment
               THEN IF segment.action = DELETE
                    THEN /\ MoveTo(ClampSeek(SkipTarget(segment)))
                         /\ lastTick' = Tick("skip", liveTime, segment,
                                             SkipTarget(segment), 0)
                         /\ UNCHANGED liveRate
                    ELSE /\ liveRate' = IF RateOff(liveRate, segment.speed)
                                        THEN segment.speed ELSE liveRate
                         /\ lastTick' = Tick("speed", liveTime, segment, -1, 0)
                         /\ UNCHANGED <<liveTime, livePaused, endedPending>>
               ELSE /\ liveRate' = NormalRate
                    /\ lastTick' = Tick("gap", liveTime, NoSegment, -1, 0)
                    /\ UNCHANGED <<liveTime, livePaused, endedPending>>
    /\ UNCHANGED <<appSegments, storeVars, frameVars, exportVars>>

\* The visible video plays on.
LiveAdvance ==
    /\ ~livePaused /\ ~Ended(liveTime)
    /\ \E d \in 1..MaxStep : MoveTo(Min(liveTime + d, Duration))
    /\ lastTick' = NoTick
    /\ UNCHANGED <<appSegments, stopAt, liveRate, isPlaying, frame,
                   storeVars, frameVars, exportVars>>

\* onEnded={() => setIsPlaying(false)}; the effect cancels the frame.
OnEnded ==
    /\ endedPending
    /\ endedPending' = FALSE
    /\ isPlaying' = FALSE
    /\ frame' = FALSE
    /\ lastTick' = NoTick
    /\ UNCHANGED <<appSegments, stopAt, liveTime, livePaused, liveRate,
                   storeVars, frameVars, exportVars>>

\* handlePlayPause: the play button and a click on the video.
handlePlayPause ==
    /\ IF livePaused
       THEN /\ liveTime' = PlayFrom(liveTime)
            /\ livePaused' = FALSE
            /\ isPlaying' = TRUE
            /\ frame' = TRUE
       ELSE /\ livePaused' = TRUE
            /\ isPlaying' = FALSE
            /\ frame' = FALSE
            /\ UNCHANGED liveTime
    /\ lastTick' = NoTick
    /\ UNCHANGED <<appSegments, stopAt, liveRate, endedPending, storeVars,
                   frameVars, exportVars>>

\* The restart button: videoRef.current.currentTime = 0.
Restart ==
    /\ liveTime' = 0
    /\ lastTick' = NoTick
    /\ UNCHANGED <<appSegments, stopAt, livePaused, liveRate, endedPending,
                   isPlaying, frame,
                   storeVars, frameVars, exportVars>>

\* The player, the timeline and the segment rows are rendered in READY only.
PlayerShown == appState = "READY" /\ videoUrl

\* document.querySelector('video'): the first video element in document
\* order, or null. The player's video is inside the React root; the
\* exporter appends its video to the end of the body.
QueryLastVideo(shown, hidden) ==
    IF hidden THEN "hidden" ELSE IF shown THEN "player" ELSE "none"
querySelectorVideo(shown, hidden) ==
    IF shown THEN "player" ELSE IF hidden THEN "hidden" ELSE "none"

\* The exporter's state that a command to its video element leaves alone.
exportUntouched ==
    <<segments, playReturnsPromise, attached, loaded, errored, playbackRate,
      closureVars, recorderVars, promiseVars, playRejection, log>>

\* if (videoEl) { videoEl.currentTime = time; videoEl.play(); } on the
\* element the query returned.
SeekAndPlay(videoEl, time) ==
    IF videoEl = "player"
    THEN /\ liveTime' = PlayFrom(ClampSeek(time))
         /\ livePaused' = FALSE
         /\ UNCHANGED <<position, playback>>
    ELSE IF videoEl = "hidden"
    THEN /\ position' = PlayFrom(ClampSeek(time))
         /\ playback' = PlayCall(playback)
         /\ UNCHANGED <<liveTime, livePaused>>
    ELSE UNCHANGED <<liveTime, livePaused, position, playback>>

\* App.handleSeek, from a click on the timeline.
handleSeek ==
    /\ PlayerShown
    /\ \E time \in SeekTimes :
          SeekAndPlay(querySelectorVideo(PlayerShown, attached), time)
    /\ stopAt' = NoStop
    /\ lastTick' = NoTick
    /\ UNCHANGED <<appSegments, liveRate, endedPending, isPlaying, frame,
                   storeVars, frameVars, exportUntouched>>

\* App.handlePlaySegment, from the preview button of a segment: the button
\* is rendered for every row, processing or not.
PlaySegment ==
    /\ PlayerShown
    /\ \E index \in 1..Len(appSegments) :
          /\ stopAt' = appSegments[index].end
          /\ SeekAndPlay(querySelectorVideo(PlayerShown, attached),
                         appSegments[index].start)
    /\ lastTick' = NoTick
    /\ UNCHANGED <<appSegments, liveRate, endedPending, isPlaying, frame,
                   appState, file, videoUrl, analyses, splits, isExporting,
                   lastRefine, frameVars, exportUntouched>>
handlePlaySegment == PlaySegment /\ UNCHANGED ops

LiveNext ==
    \/ updateLoop
    \/ LiveAdvance
    \/ OnEnded
    \/ handlePlayPause
    \/ Restart
    \/ handleSeek
    \/ handlePlaySegment

LiveSpec == LiveInit /\ [][LiveNext]_vars

\* ------------------------------------------------ reading the last tick
\* The segments of the list that contain time t, and among them those of
\* earliest start.
Holders(t) ==
    { i \in 1..Len(appSegments) :
         appSegments[i].start <= t /\ t < appSegments[i].end }
EarliestHolders(t) ==
    { i \in Holders(t) :
         \A j \in Holders(t) : appSegments[i].start <= appSegments[j].start }
\* A tick has just run and its stop condition was not met.
TickedOn ==
    /\ lastTick.kind # "none"
    /\ ~(lastTick.stop # NoStop /\ lastTick.time >= lastTick.stop)

\* ----------------------------------------------------------------- C11
\* C11: on a list ordered by start, the segment a tick locates for time t
\* contains t (start <= t < end); when several segments contain t it is one
\* of earliest start; when none contains t nothing is located.
ActiveSegmentIsEarliest ==
    TickedOn =>
       IF Holders(lastTick.time) = {}
       THEN lastTick.found = NoSegment
       ELSE \E i \in EarliestHolders(lastTick.time) :
               lastTick.found = appSegments[i]

\* A tick at a time that two segments of different start contain.
ActiveSegmentIsEarliestWitness ==
    /\ TickedOn
    /\ \E i, j \in Holders(lastTick.time) :
          appSegments[i].start < appSegments[j].start

\* ----------------------------------------------------------------- C12
\* C12: a tick whose stop condition is not met, at a time whose earliest
\* segment s is DELETE, assigns s.end + 0.01 to the position of the visible
\* video (which the element clamps to the media) and leaves its rate as it
\* was.
DeleteTickSkips ==
    (/\ TickedOn
     /\ Holders(lastTick.time) # {}
     /\ \A i \in EarliestHolders(lastTick.time) : appSegments[i].action = DELETE)
       => \E i \in EarliestHolders(lastTick.time) :
             /\ lastTick.target = appSegments[i].end + Epsilon
             /\ liveTime = IF lastTick.target > Duration THEN Duration
                           ELSE lastTick.target
             /\ liveRate = lastTick.rate

\* A tick inside a DELETE segment at rate 2.0 that landed just past its end.
DeleteTickSkipsWitness ==
    /\ TickedOn
    /\ lastTick.found.action = DELETE
    /\ liveTime = lastTick.found.end + Epsilon
    /\ liveRate = 200

\* ----------------------------------------------------------------- C13
\* C13: a tick that finds stopAt set and the position at or past it leaves
\* the video paused and the controller inactive, has called onStopReached
\* once (stopAt is null again), has moved neither position nor rate, and
\* leaves no animation frame scheduled.
StopTickStops ==
    (/\ lastTick.kind # "none"
     /\ lastTick.stop # NoStop
     /\ lastTick.time >= lastTick.stop)
       => /\ livePaused
          /\ ~isPlaying
          /\ lastTick.reached = 1
          /\ stopAt = NoStop
          /\ lastTick.target = -1
          /\ liveTime = lastTick.time
          /\ liveRate = lastTick.rate
          /\ ~frame

\* A stop tick inside a DELETE segment with the rate away from normal: the
\* skip and the speed logic both had something to do.
StopTickStopsWitness ==
    /\ lastTick.kind = "stop"
    /\ lastTick.rate # NormalRate
    /\ \E i \in Holders(lastTick.time) : appSegments[i].action = DELETE

\* ----------------------------------------------------------------- C14
\* C14: the target of a skip lies within the media, 0 <= target <= Duration,
\* for segments that lie within the media.
SkipTargetWithinMedia ==
    lastTick.kind = "skip" => (0 <= lastTick.target /\ lastTick.target <= Duration)

\* ----------------------------------------------------------------- C15
\* C15: a tick whose stop condition is not met, at a time whose earliest
\* segment s is KEEP, sets the rate to s.speed exactly when it was off by
\* more than 0.1, so the rate ends within 0.1 of s.speed; at a time that no
\* segment contains it leaves the rate at 1.0; in both cases the position
\* stays where it was.
KeepTickSetsRate ==
    TickedOn =>
       /\ Holders(lastTick.time) = {} =>
             /\ liveRate = NormalRate
             /\ liveTime = lastTick.time
       /\ (/\ Holders(lastTick.time) # {}
           /\ \A i \in EarliestHolders(lastTick.time) : appSegments[i].action = KEEP)
             => \E i \in EarliestHolders(lastTick.time) :
                   /\ liveRate =
                         IF Abs(lastTick.rate - appSegments[i].speed) > RateTolerance
                         THEN appSegments[i].speed ELSE lastTick.rate
                   /\ Abs(liveRate - appSegments[i].speed) <= RateTolerance
                   /\ liveTime = lastTick.time

\* A tick inside a KEEP segment that left a rate other than the segment's
\* speed untouched.
KeepTickSetsRateWitness ==
    /\ TickedOn
    /\ lastTick.found.action = KEEP
    /\ liveRate = lastTick.rate
    /\ liveRate # lastTick.found.speed

\* ----------------------------------------------------------------- C16
\* Reading the export's log for the source times it leaves out: a time is
\* jumped over when a seek moves the position from at or before it to past
\* it, and left out when the export has resolved with the position at or
\* before it.
Uncovered(t) ==
    \A k \in 1..Len(segments) : ~(segments[k].start <= t /\ t < segments[k].end)
PausesBefore(k) == { j \in 1..(k - 1) : Kind(log[j]) = "pause" }
PositionBefore(k) ==
    IF PausesBefore(k) = {} THEN 0
    ELSE Val(log[CHOOSE j \in PausesBefore(k) : \A h \in PausesBefore(k) : h <= j])
JumpedOver(t) ==
    \E k \in LogIndices :
       /\ Kind(log[k]) = "seek"
       /\ PositionBefore(k) <= t
       /\ t < Val(log[k])
LeftOut(t) == outcome = "resolved" /\ position <= t

\* C16: a source time that no segment covers is treated as KEEP at speed 1.0
\* by the export as by the live preview: the export plays through it, so it
\* neither seeks over it nor resolves before reaching it.
ExportPlaysGaps ==
    \A t \in 0..(Duration - 1) :
       Uncovered(t) => (~JumpedOver(t) /\ ~LeftOut(t))

\* ====================================================================
\* The segment store: App's segments state and the operations on it
\* (analysis, edits, splits, reset), with the start of an export and of a
\* segment preview.
\* ====================================================================
\* Bounds: the sub-segments of one refinement response, the length of the
\* store, the splits and the analyses in flight, and the user operations on
\* the store in one run (file selection, edit, split, reset, export,
\* preview).
MaxSubs == 2
MaxStore == 3
MaxInFlight == 2
MaxAnalyses == 1
MaxOps == 3

\* Timestamps the upstream service may answer an analysis with; a refinement
\* may be answered with any of TimePoints.
StorePoints == {0, ShortLen, Duration}

\* What the upstream service may answer, before the code touches it: any
\* segments in any order.
Upstream(points) ==
    { Segment(s, e, 100, a) : s \in points, e \in points, a \in {KEEP, DELETE} }
RawLists(points, maxLen) ==
    UNION { [1..n -> { g \in Upstream(points) : g.start < g.end }] : n \in 0..maxLen }
RawAnalyses == RawLists(StorePoints, MaxLiveSegs)
RawRefinements == RawLists(TimePoints, MaxSubs)

\* segments.sort((a, b) => a.start - b.start): a stable sort by start.
RECURSIVE Insert(_, _)
Insert(sorted, seg) ==
    IF sorted = <<>> THEN <<seg>>
    ELSE IF Head(sorted).start <= seg.start
         THEN <<Head(sorted)>> \o Insert(Tail(sorted), seg)
         ELSE <<seg>> \o sorted
RECURSIVE sortByStart(_)
sortByStart(list) ==
    IF list = <<>> THEN <<>>
    ELSE Insert(sortByStart(SubSeq(list, 1, Len(list) - 1)), list[Len(list)])

\* { ...seg, ...updates }
Spread(seg, updates) ==
    [f \in DOMAIN seg \cup DOMAIN updates |->
        IF f \in DOMAIN updates THEN updates[f] ELSE seg[f]]

\* seg.isProcessing, undefined on a segment that was never split.
IsProcessing(seg) == "isProcessing" \in DOMAIN seg /\ seg.isProcessing

\* The body of updateSegment on the segments its closure holds.
UpdateSegment(segs, index, updates) ==
    [segs EXCEPT ![index] = Spread(segs[index], updates)]

\* The safety check of refineSegment, then its sort.
Max(a, b) == IF a > b THEN a ELSE b
Clamp(seg, startTime, endTime) ==
    Spread(seg, [start |-> Max(startTime, seg.start),
                 end |-> Min(endTime, seg.end)])
refineSegment(startTime, endTime, raw) ==
    sortByStart([k \in 1..Len(raw) |-> Clamp(raw[k], startTime, endTime)])

\* newSegments.splice(index, 1, ...newSubSegments)
Splice(segs, index, subs) ==
    SubSeq(segs, 1, index - 1) \o subs \o SubSeq(segs, index + 1, Len(segs))

\* The exporter keeps the array it was handed at handleExport. A handler
\* that changes the store builds a new array ([...segments], a new object
\* per changed row, [] on reset) and hands that to setSegments: whatever it
\* writes, the array the exporter holds keeps its contents.
HeldAliased(held, written) == written
HeldAfterSet(held, written) == held

\* The exporter's state other than the array it holds.
exportRest ==
    <<playReturnsPromise, videoVars, closureVars, recorderVars, promiseVars,
      playRejection, log>>

StoreInit ==
    /\ appSegments = <<>>
    /\ appState = "IDLE"
    /\ file = FALSE
    /\ videoUrl = FALSE
    /\ analyses = 0
    /\ splits = {}
    /\ isExporting = FALSE
    /\ ops = 0
    /\ lastRefine = NoRefine
    /\ PlayerAtRest
    /\ ExporterIdle

\* handleFileSelect up to its await, from the upload zone shown in IDLE.
handleFileSelect ==
    /\ appState = "IDLE"
    /\ analyses < MaxAnalyses
    /\ ops < MaxOps
    /\ ops' = ops + 1
    /\ file' = TRUE
    /\ videoUrl' = TRUE
    /\ appState' = "ANALYZING"
    /\ analyses' = analyses + 1
    /\ lastRefine' = NoRefine
    /\ UNCHANGED <<appSegments, splits, isExporting, liveVars, frameVars, exportVars>>

\* analyzeVideo resolves: handleFileSelect stores the sorted answer.
AnalysisResolves ==
    /\ analyses > 0
    /\ \E raw \in RawAnalyses : appSegments' = sortByStart(raw)
    /\ appState' = "READY"
    /\ analyses' = analyses - 1
    /\ lastRefine' = NoRefine
    /\ segments' = HeldAfterSet(segments, appSegments')
    /\ UNCHANGED <<file, videoUrl, splits, isExporting, ops, liveVars, frameVars,
                   exportRest>>

\* analyzeVideo rejects: the catch block of handleFileSelect.
AnalysisRejects ==
    /\ analyses > 0
    /\ appState' = "ERROR"
    /\ analyses' = analyses - 1
    /\ lastRefine' = NoRefine
    /\ UNCHANGED <<appSegments, file, videoUrl, splits, isExporting, ops,
                   liveVars, frameVars, exportVars>>

\* The controls of a segment row are rendered while it is not processing.
RowControls(index) ==
    /\ PlayerShown
    /\ ops < MaxOps
    /\ index \in 1..Len(appSegments)
    /\ ~IsProcessing(appSegments[index])

\* The KEEP/CUT toggle of a row.
ToggleAction ==
    /\ \E index \in 1..Len(appSegments) :
          /\ RowControls(index)
          /\ appSegments' =
                UpdateSegment(appSegments, index,
                   [action |-> IF appSegments[index].action = KEEP
                               THEN DELETE ELSE KEEP])
    /\ ops' = ops + 1
    /\ lastRefine' = NoRefine
    /\ segments' = HeldAfterSet(segments, appSegments')
    /\ UNCHANGED <<appState, file, videoUrl, analyses, splits, isExporting,
                   liveVars, frameVars, exportRest>>

\* The speed selector of a row.
ChangeSpeed ==
    /\ \E index \in 1..Len(appSegments), sp \in Speeds :
          /\ RowControls(index)
          /\ appSegments' = UpdateSegment(appSegments, index, [speed |-> sp])
    /\ ops' = ops + 1
    /\ lastRefine' = NoRefine
    /\ segments' = HeldAfterSet(segments, appSegments')
    /\ UNCHANGED <<appState, file, videoUrl, analyses, splits, isExporting,
                   liveVars, frameVars, exportRest>>

\* handleSplitSegment up to its await, from the split button of a row.
SplitStarts(index) ==
    /\ RowControls(index)
    /\ Cardinality(splits) < MaxInFlight
    /\ IF file
       THEN /\ appSegments' = UpdateSegment(appSegments, index,
                                            [isProcessing |-> TRUE])
            /\ splits' = splits \cup {[index |-> index, segments |-> appSegments]}
       ELSE UNCHANGED <<appSegments, splits>>
    /\ ops' = ops + 1
    /\ lastRefine' = NoRefine
    /\ segments' = HeldAfterSet(segments, appSegments')
    /\ UNCHANGED <<appState, file, videoUrl, analyses, isExporting, liveVars, frameVars,
                   exportRest>>
handleSplitSegment == \E index \in 1..Len(appSegments) : SplitStarts(index)

\* refineSegment resolves: handleSplitSegment continues on the segments of
\* its closure.
SplitResolves ==
    /\ \E sp \in splits, raw \in RawRefinements :
          LET target == sp.segments[sp.index]
              newSubSegments == refineSegment(target.start, target.end, raw)
          IN /\ Len(sp.segments) - 1 + Len(newSubSegments) <= MaxStore
             /\ appSegments' =
                   IF Len(newSubSegments) > 0
                   THEN Splice(sp.segments, sp.index, newSubSegments)
                   ELSE UpdateSegment(sp.segments, sp.index,
                                      [isProcessing |-> FALSE])
             /\ splits' = splits \ {sp}
             /\ lastRefine' = [startTime |-> target.start, endTime |-> target.end,
                               raw |-> raw, result |-> newSubSegments]
    /\ segments' = HeldAfterSet(segments, appSegments')
    /\ UNCHANGED <<appState, file, videoUrl, analyses, isExporting, ops,
                   liveVars, frameVars, exportRest>>

\* refineSegment rejects: the catch block of handleSplitSegment.
SplitRejects ==
    /\ \E sp \in splits :
          /\ appSegments' = UpdateSegment(sp.segments, sp.index,
                                          [isProcessing |-> FALSE])
          /\ splits' = splits \ {sp}
    /\ lastRefine' = NoRefine
    /\ segments' = HeldAfterSet(segments, appSegments')
    /\ UNCHANGED <<appState, file, videoUrl, analyses, isExporting, ops,
                   liveVars, frameVars, exportRest>>

\* resetApp, from the header.
resetApp ==
    /\ ops < MaxOps
    /\ ops' = ops + 1
    /\ appState' = "IDLE"
    /\ file' = FALSE
    /\ appSegments' = <<>>
    /\ lastRefine' = NoRefine
    /\ segments' = HeldAfterSet(segments, appSegments')
    /\ UNCHANGED <<videoUrl, analyses, splits, isExporting, liveVars, frameVars, exportRest>>

\* handleExport up to its await, from the download button.
ExportShown == appState \in {"READY", "ERROR"} /\ videoUrl /\ ~isExporting
handleExport ==
    /\ ExportShown
    /\ ops < MaxOps
    /\ ops' = ops + 1
    /\ Len(appSegments) # 0
    /\ isExporting' = TRUE
    /\ segments' = appSegments
    /\ lastRefine' = NoRefine
    /\ UNCHANGED <<appSegments, appState, file, videoUrl, analyses, splits,
                   liveVars, frameVars, exportRest>>

\* exportProcessedVideo settles: the finally block of handleExport.
ExportFinally ==
    /\ isExporting
    /\ isExporting' = FALSE
    /\ lastRefine' = NoRefine
    /\ UNCHANGED <<appSegments, appState, file, videoUrl, analyses, splits, ops,
                   liveVars, frameVars, exportVars>>

\* handlePlaySegment as one of the user operations of a run on the store.
PreviewStarts ==
    /\ ops < MaxOps
    /\ ops' = ops + 1
    /\ PlaySegment

StoreNext ==
    \/ handleFileSelect
    \/ AnalysisResolves
    \/ AnalysisRejects
    \/ ToggleAction
    \/ ChangeSpeed
    \/ handleSplitSegment
    \/ SplitResolves
    \/ SplitRejects
    \/ resetApp
    \/ handleExport
    \/ ExportFinally
    \/ PreviewStarts

StoreSpec == StoreInit /\ [][StoreNext]_vars

\* ----------------------------------------------------------------- C17
\* C17: every sub-segment of the list refineSegment(file, startTime, endTime)
\* returns has startTime <= start <= endTime and startTime <= end <= endTime,
\* whatever the upstream service answered.
SubSegmentsWithinRange ==
    lastRefine # NoRefine =>
       \A k \in 1..Len(lastRefine.result) :
          /\ lastRefine.startTime <= lastRefine.result[k].start
          /\ lastRefine.result[k].start <= lastRefine.endTime
          /\ lastRefine.startTime <= lastRefine.result[k].end
          /\ lastRefine.result[k].end <= lastRefine.endTime

\* ----------------------------------------------------------------- C18
\* C18: after any sequence of analyses, edits and splits the store is sorted
\* ascending by start, whatever the upstream service answered.
StoreSorted ==
    \A i \in 1..(Len(appSegments) - 1) :
       appSegments[i].start <= appSegments[i + 1].start

\* ----------------------------------------------------------------- C19
\* Two segments overlap when some time lies in both.
Overlap(a, b) == Max(a.start, b.start) < Min(a.end, b.end)
NoKeepOverlap(segs) ==
    \A i, j \in 1..Len(segs) :
       (i < j /\ segs[i].action = KEEP /\ segs[j].action = KEEP)
          => ~Overlap(segs[i], segs[j])
MutuallyDisjoint(segs) ==
    \A i, j \in 1..Len(segs) : i < j => ~Overlap(segs[i], segs[j])
CoveredBy(segs, t) == \E k \in 1..Len(segs) : Contains(segs[k], t)
\* A step in which a refineSegment call has returned.
Refined == Cardinality(splits') < Cardinality(splits) /\ lastRefine' # NoRefine

\* C19: when a refinement returns mutually non-overlapping sub-segments to a
\* store that has no two overlapping KEEP segments, the store after the clamp
\* and the splice has no two overlapping KEEP segments either, and a time of
\* the refined range that no sub-segment covers is covered by none of the
\* stored sub-segments.
SplitKeepsKeepDisjoint ==
    [][(/\ Refined
        /\ NoKeepOverlap(appSegments)
        /\ MutuallyDisjoint(lastRefine'.raw))
          => /\ NoKeepOverlap(appSegments')
             /\ \A t \in lastRefine'.startTime..(lastRefine'.endTime - 1) :
                   CoveredBy(lastRefine'.result, t) => CoveredBy(lastRefine'.raw, t)
      ]_vars

\* ----------------------------------------------------------------- C20
AnyProcessing == \E k \in 1..Len(appSegments) : IsProcessing(appSegments[k])

\* C20: while a segment of the store has isProcessing set, no export is
\* started, no preview playback of the store is started, and no further split
\* of that segment is started.
NothingStartsWhileProcessing ==
    [][AnyProcessing =>
          /\ ~handleExport
          /\ ~PreviewStarts
          /\ \A k \in 1..Len(appSegments) :
                IsProcessing(appSegments[k]) => ~SplitStarts(k)
      ]_vars

MaxSideSegs == 1

SideLists ==
    { segs \in SegmentLists :
         /\ Len(segs) <= MaxSideSegs
         /\ \A i \in 1..Len(segs) : segs[i].start > 0 }

SideInit ==
    /\ Init
    /\ segments \in SideLists

SideNext == Next \/ LiveNext

SideSpec == SideInit /\ [][SideNext]_vars

\* The transports as their commands see them.
hiddenTransport == <<position, playbackRate, playback>>
visibleTransport == <<liveTime, liveRate, livePaused>>

\* C22: while an export runs beside the visible player, no operation of the
\* live preview (play/pause, restart, timeline seek, segment preview, tick,
\* end of the visible media) changes the position, the rate or the play
\* state of the exporter's hidden video, and no step of the export changes
\* those of the visible video.
TransportsNotShared ==
    [][/\ LiveNext => UNCHANGED hiddenTransport
       /\ Next => UNCHANGED visibleTransport]_vars

\* The hidden video is running in an export while the visible video plays a
\* segment preview at another position.
TransportsNotSharedWitness ==
    /\ attached
    /\ playback = "running"
    /\ outcome = "pending"
    /\ ~livePaused
    /\ stopAt # NoStop
    /\ liveTime # position

\* ----------------------------------------------------------------- C23
\* The step issues play for segment i: onSeeked's rate and play entries are
\* the last of the log.
PlayIssued(i) ==
    /\ Len(log') > Len(log)
    /\ log'[Len(log')] = LogPlay(i)
\* The seeks to the start of segment i that entries 1..n of lg record.
SeeksTo(lg, n, i) == { k \in 1..n : lg[k] = LogSeek(i, Seg(i).start) }

\* C23: a step that issues play for segment i handles a KEEP segment and is
\* either the arrival of the 'seeked' signal of a seek to the start of i
\* that an earlier step issued, or finds the position within 50 ms of the
\* start of i with no seek issued for i; it sets the rate to the speed of
\* i, attaches the monitor of i and issues play, and no earlier step has
\* set the rate or issued play for i.
PlayOnlyAfterSeek ==
    [][\A i \in 0..(Len(segments) - 1) :
          PlayIssued(i) =>
             /\ Seg(i).action = KEEP
             /\ Len(log') >= Len(log) + 2
             /\ log'[Len(log') - 1] = LogRate(i, Seg(i).speed)
             /\ playbackRate' = Seg(i).speed
             /\ i \in listeners'
             /\ \A k \in 1..Len(log) :
                   Idx(log[k]) = i => Kind(log[k]) \notin {"rate", "play"}
             /\ IF seekedListener = i
                THEN /\ seekedListener' = -1
                     /\ SeeksTo(log, Len(log), i) # {}
                     /\ position = Seg(i).start
                ELSE /\ SeeksTo(log', Len(log'), i) = {}
                     /\ Abs(position - Seg(i).start) < SeekTolerance]_vars

\* Play was issued for one segment after its seek completed and for another
\* without a seek, from a position that is not its start.
PlayOnlyAfterSeekWitness ==
    \E j, k, n \in LogIndices :
       /\ j < k
       /\ Kind(log[j]) = "seek" /\ log[k] = LogPlay(Idx(log[j]))
       /\ Kind(log[n]) = "play"
       /\ \A q \in LogIndices :
             Idx(log[q]) = Idx(log[n]) => Kind(log[q]) # "seek"
       /\ \E q \in LogIndices :
             /\ Kind(log[q]) = "pause"
             /\ Idx(log[q]) < Idx(log[n])
             /\ Val(log[q]) # Seg(Idx(log[n])).start

\* ----------------------------------------------------------------- C24
\* The monitor of segment i acts: a 'timeupdate' makes checkEnd pause the
\* video and go on to the next segment.
MonitorActs(i) == CheckEnd(i) /\ log' # log
\* The play request of segment i is not yet confirmed: its promise is
\* pending, or fulfilled with the then-callback still to run.
Unconfirmed(i) == playIdx = i /\ playPromise # "none"

Advances(i) ==
    \E k \in (Len(log) + 1)..Len(log') :
       Kind(log'[k]) = "pause" /\ Idx(log'[k]) = i

\* C25: the then-callback of the play request of segment i that finds the
\* position at or past the end of i pauses, detaches the monitor of i and
\* goes on to the next segment in the same step; and whichever of the
\* then-callback and the monitor advances segment i, i is the current
\* segment and has not been advanced before.
ConfirmationAdvancesOnce ==
    [][\A i \in 0..(Len(segments) - 1) :
          /\ (PlayThen /\ playIdx = i /\ position >= Seg(i).end) =>
                 /\ Advances(i)
                 /\ i \notin listeners'
                 /\ currentSegmentIndex' >= i + 1
          /\ Advances(i) =>
                 /\ currentSegmentIndex = i
                 /\ \A k \in LogIndices :
                       ~(Kind(log[k]) = "pause" /\ Idx(log[k]) = i)]_vars

\* A segment was advanced with the video at the end of the media, where
\* the monitor does nothing: the then-callback advanced it.
ConfirmationAdvancesOnceWitness ==
    \E k \in LogIndices :
       /\ Kind(log[k]) = "pause"
       /\ Val(log[k]) = Duration
       /\ Idx(log[k]) \notin listeners
       /\ currentSegmentIndex > Idx(log[k])

\* ----------------------------------------------------------------- C26
\* C26: at most one checkEnd is attached to the hidden video, and it is the
\* one of the current segment: the monitor of a segment is detached in the
\* step that leaves the segment, before onSeeked of a later segment
\* attaches its own.
OneMonitor ==
    /\ Cardinality(listeners) <= 1
    /\ listeners \subseteq {currentSegmentIndex}

\* The monitor of a segment is attached after an earlier segment was
\* played under its own monitor.
OneMonitorWitness ==
    \E j \in listeners :
       \E k \in LogIndices :
          Kind(log[k]) = "pause" /\ Idx(log[k]) < j

\* ----------------------------------------------------------------- C27
\* The progress reports among entries 1..n of lg: one per call of
\* processNextSegment that found a segment to handle.
Handled(lg, n) == Cardinality({ k \in 1..n : Kind(lg[k]) = "progress" })

\* C27: no step handles more than one segment, however many DELETE segments
\* follow each other: the call of processNextSegment that skips a DELETE
\* segment ends there, having advanced the index by one and left the
\* continuation to a setTimeout callback, so calls of processNextSegment
\* never nest.
SkipIsDeferred ==
    [][/\ Handled(log', Len(log')) <= Handled(log, Len(log)) + 1
       /\ \A i \in 0..(Len(segments) - 1) :
             (Len(log') > Len(log) /\ LogSkip(i) \in
                 { log'[k] : k \in (Len(log) + 1)..Len(log') }) =>
                /\ log'[Len(log')] = LogSkip(i)
                /\ currentSegmentIndex' = i + 1
                /\ timers' >= 1]_vars

\* Every segment of a list of MaxSegs segments has been skipped.
SkipIsDeferredWitness ==
    /\ Len(segments) = MaxSegs
    /\ \A i \in 0..(MaxSegs - 1) : \E k \in LogIndices : log[k] = LogSkip(i)

\* ----------------------------------------------------------------- C30
\* The step completes the refinement sp: refineSegment has returned or
\* thrown and handleSplitSegment has run to its end, while the refined row
\* is still in the store, at its index and busy.
Completes(sp) ==
    /\ SplitResolves \/ SplitRejects
    /\ splits' = splits \ {sp}
    /\ sp.index <= Len(appSegments)
    /\ IsProcessing(appSegments[sp.index])
\* The rows of the store before and after the refined row are what they
\* were before the step.
OthersKept(index) ==
    /\ Len(appSegments') >= Len(appSegments) - 1
    /\ \A k \in 1..(index - 1) : appSegments'[k] = appSegments[k]
    /\ \A k \in 0..(Len(appSegments) - index - 1) :
          appSegments'[Len(appSegments') - k] = appSegments[Len(appSegments) - k]

\* C30: the step that completes a refinement leaves every row of the store
\* other than the refined one as it was immediately before the step, and
\* when the refinement failed or returned no sub-segment it changes the
\* refined row in its busy flag only.
CompletionKeepsOthers ==
    [][\A sp \in splits :
          Completes(sp) =>
             /\ OthersKept(sp.index)
             /\ (lastRefine' = NoRefine \/ lastRefine'.result = <<>>) =>
                   appSegments' = UpdateSegment(appSegments, sp.index,
                                                [isProcessing |-> FALSE])]_vars

\* ------------------------------------------- the frame loop of SmartPlayer
\* LiveSpec takes each handler together with the effect of the render it
\* causes. Here the browser's animation frames and React's effect are steps
\* of their own: a handler changes the state, the effect on
\* [isPlaying, updateLoop] runs when React gets to it, and a callback that
\* was requested runs with the stopAt and the segments of its closure.
MaxFrames == 2
MaxFrameSegs == 1

FrameLists == { segs \in LiveLists : Len(segs) <= MaxFrameSegs }

FrameInit ==
    /\ appSegments \in FrameLists
    /\ PlayerAtRest
    /\ AppReady
    /\ isExporting = FALSE
    /\ ExporterIdle

\* The updateLoop of the current render.
Closure == [stop |-> stopAt, segs |-> appSegments]

\* A cancelAnimationFrame that cancels nothing.
CancelNothing(frames, newestPending) == frames
\* cancelAnimationFrame(animationFrameRef.current): the ref holds the id of
\* the callback requested last.
CancelRef(frames, newestPending) ==
    IF newestPending THEN SubSeq(frames, 1, Len(frames) - 1) ELSE frames

\* The effect on [isPlaying, updateLoop] of a render whose isPlaying, stopAt
\* or segments differ from those of the render before: the cleanup of the
\* previous effect, then the effect.
RunEffect ==
    /\ effectDeps # Deps
    /\ LET cleaned == CancelRef(pendingFrames, refPending)
       IN  IF isPlaying
           THEN /\ Len(cleaned) < MaxFrames
                /\ pendingFrames' = Append(cleaned, Closure)
                /\ refPending' = TRUE
           ELSE /\ pendingFrames' = cleaned
                /\ refPending' = FALSE
    /\ effectDeps' = Deps
    /\ lastTick' = NoTick
    /\ UNCHANGED <<appSegments, stopAt, liveTime, livePaused, liveRate,
                   endedPending, isPlaying, frame, storeVars, exportVars>>

\* What one call of the callback cb did, for lastTick.
FrameTick(cb, k, seg, target, reached) ==
    [Tick(k, liveTime, seg, target, reached) EXCEPT !.stop = cb.stop]

\* The browser runs the oldest pending callback: updateLoop with the stopAt
\* and the segments of its closure.
FrameCallback ==
    /\ pendingFrames # <<>>
    /\ LET cb == Head(pendingFrames)
           rest == Tail(pendingFrames)
       IN  IF StopDue(cb.stop, liveTime)
           THEN /\ livePaused' = TRUE
                /\ isPlaying' = FALSE
                /\ stopAt' = NoStop
                /\ pendingFrames' = rest
                /\ refPending' = (refPending /\ rest # <<>>)
                /\ lastTick' = FrameTick(cb, "stop", NoSegment, -1, 1)
                /\ UNCHANGED <<liveTime, liveRate, endedPending>>
           ELSE LET segment == getActiveSegment(cb.segs, liveTime) IN
                /\ pendingFrames' = Append(rest, cb)
                /\ refPending' = TRUE
                /\ UNCHANGED <<stopAt, isPlaying>>
                /\ IF segment # NoSegment
                   THEN IF segment.action = DELETE
                        THEN /\ MoveTo(ClampSeek(SkipTarget(segment)))
                             /\ lastTick' = FrameTick(cb, "skip", segment,
                                                      SkipTarget(segment), 0)
                             /\ UNCHANGED liveRate
                        ELSE /\ liveRate' = IF RateOff(liveRate, segment.speed)
                                            THEN segment.speed ELSE liveRate
                             /\ lastTick' = FrameTick(cb, "speed", segment, -1, 0)
                             /\ UNCHANGED <<liveTime, livePaused, endedPending>>
                   ELSE /\ liveRate' = NormalRate
                        /\ lastTick' = FrameTick(cb, "gap", NoSegment, -1, 0)
                        /\ UNCHANGED <<liveTime, livePaused, endedPending>>
    /\ UNCHANGED <<appSegments, frame, effectDeps, storeVars, exportVars>>

\* handlePlayPause, up to its return.
PlayPauseClicked ==
    /\ IF livePaused
       THEN /\ liveTime' = PlayFrom(liveTime)
            /\ livePaused' = FALSE
            /\ isPlaying' = TRUE
       ELSE /\ livePaused' = TRUE
            /\ isPlaying' = FALSE
            /\ UNCHANGED liveTime
    /\ lastTick' = NoTick
    /\ UNCHANGED <<appSegments, stopAt, liveRate, endedPending, frame,
                   storeVars, frameVars, exportVars>>

\* onEnded={() => setIsPlaying(false)}, up to its return.
EndedFired ==
    /\ endedPending
    /\ endedPending' = FALSE
    /\ isPlaying' = FALSE
    /\ lastTick' = NoTick
    /\ UNCHANGED <<appSegments, stopAt, liveTime, livePaused, liveRate, frame,
                   storeVars, frameVars, exportVars>>

FrameNext ==
    \/ RunEffect
    \/ FrameCallback
    \/ PlayPauseClicked
    \/ EndedFired
    \/ LiveAdvance
    \/ Restart
    \/ handleSeek
    \/ handlePlaySegment
    \/ ToggleAction

FrameSpec == FrameInit /\ [][FrameNext]_vars

\* ----------------------------------------------------------------- C28
\* C28: an updateLoop callback runs only while the controller is active:
\* once isPlaying is false (after a pause by the user, a stop at stopAt, or
\* the end of the media) no callback runs until it is true again.
NoTickWhileInactive == [][FrameCallback => isPlaying]_vars

\* ----------------------------------------------------------------- C29
\* C29: at most one updateLoop callback is pending at any time: whenever
\* the effect requests a frame, after play or after a change of stopAt or
\* of the segments, the callback requested before has run or has been
\* cancelled.
OneFramePending == Len(pendingFrames) <= 1

\* The controller is active on a callback that the effect requested after a
\* segment preview set stopAt and a row was toggled, in place of the one
\* requested at play.
OneFramePendingWitness ==
    /\ isPlaying
    /\ Len(pendingFrames) = 1
    /\ pendingFrames[1].stop # NoStop
    /\ pendingFrames[1].segs = appSegments
    /\ ops > 0
    /\ effectDeps = Deps

\* ----------------------------------------------------------------- C31
\* C31: once every refinement that was started has completed, with
\* sub-segments, with an empty answer or with an error, no segment of the
\* store has isProcessing set, also when the refinements of two rows were in
\* flight at the same time.
BusyIsTransient == splits = {} => ~AnyProcessing

\* ----------------------------------------------------------------- C32
\* C32: from resetApp until the next handleFileSelect, which are the states
\* in which file is null, the store is empty and the application is IDLE,
\* also when an analyzeVideo or refineSegment call that was started before
\* the reset returns after it.
ResetStaysReset == ~file => (appSegments = <<>> /\ appState = "IDLE")

\* ----------------------------------------------------------------- C33
\* C33: whenever the visible video is playing, whether the play button, a
\* click on the timeline or a segment preview started it, the controller is
\* active and an updateLoop callback is pending, so that a preview is
\* stopped at its stopAt.
PlayingIsTicked == ~livePaused => (isPlaying /\ frame)

\* ----------------------------------------------------------------- C34
\* The hidden video has reached the end of the media while the export plays
\* KEEP segment i, a segment that ends at or after the end of the media: the
\* play() of the segment is confirmed and its checkEnd is attached.
EndOfMediaIn(i) ==
    /\ i < Len(segments)
    /\ currentSegmentIndex = i
    /\ Seg(i).action = KEEP
    /\ Seg(i).end >= Duration
    /\ i \in listeners
    /\ IsPlayingFlag(i, armed)
    /\ Ended(position)
    /\ outcome = "pending"

\* C34: when the hidden video reaches the end of the media while the export
\* plays KEEP segment i, the export still leaves segment i: the index moves
\* past i, to the next segment or to the finalization (unless the export
\* fails first).
EndOfMediaAdvances ==
    \A i \in 0..(MaxSegs - 1) :
       EndOfMediaIn(i) ~> (currentSegmentIndex > i \/ outcome # "pending")

\* ----------------------------------------------------------------- C35
\* The export has failed: the promise was rejected by video.onerror or by the
\* catch handler of a play() promise.
Failed == outcome = "rejected" /\ rejectMsg[1] \in {LoadMessage, PlayMessage}

\* C35: once the export has failed, no step reports progress, issues a
\* command to the hidden video (seek, rate, play, pause) or changes the
\* state of the recorder, whatever timer, seeked or timeupdate callback was
\* scheduled before the failure.
FailedIsTerminal ==
    [][Failed => (log' = log /\ recState' = recState)]_vars

====
